---- MODULE Spec2Model ----
(***************************************************************************)
(* Asset-performance projection engine of shark-lifeplan-manager           *)
(* (AssetStore: createAsset, updateAsset, updateActualPerformance, ...).   *)
(*                                                                         *)
(* Numbers.  A JavaScript Number that may carry a fraction is modelled as  *)
(* a fixed-point record [w |-> whole, f |-> micro] standing for            *)
(* w + f / Scale with 0 <= f < Scale (w is the floor, also for negative    *)
(* values).  Rates are integers in thousandths (50 is 0.05).  Products are *)
(* computed in split form so that no intermediate value leaves TLC's       *)
(* 32-bit integers.                                                        *)
(*                                                                         *)
(* Dates.  A date-only ISO string "YYYY-MM-DD" is the tuple <<y, m, d>>    *)
(* (m is 1..12); null is the empty tuple.  The host's time zone is tz, the *)
(* whole number of hours local time is ahead of UTC.                       *)
(***************************************************************************)
EXTENDS Integers, Sequences, FiniteSets, TLC

VARIABLES
    assets,     \* AssetStore.assets: id -> asset record
    nextId,     \* the number of ids nanoid() has handed out so far
    tz,         \* the host's offset from UTC in hours (fixed for a run)
    steps,      \* the number of store operations performed so far
    last,       \* the last store operation: its name, arguments and outcome
    calc,       \* the last direct application of a calculator: inputs and result
    lifePlans,          \* LifePlanStore.lifePlans: key -> life plan record
    activeLifePlanId,   \* LifePlanStore.activeLifePlanId
    nanoCount           \* the number of ids nanoid() has handed out to life plans

planVars == <<lifePlans, activeLifePlanId, nanoCount>>

assetVars == <<assets, nextId, tz, calc>>

vars == <<assets, nextId, tz, steps, last, calc, lifePlans, activeLifePlanId, nanoCount>>

----------------------------------------------------------------------------
(* Bounds of the model *)

MaxAssets == 2
MaxSteps == 3

(* Program constants *)

ProjectionHorizon == 50
DailyPeriods == 365
MonthlyPeriods == 12
YearlyPeriods == 1
MonthlyPayments == 12
QuarterlyPayments == 4
YearlyPayments == 1
MonthsPerYear == 12
BestCasePercentile == 95
ExpectedPercentile == 50
WorstCasePercentile == 5

----------------------------------------------------------------------------
(* Fixed-point numbers *)

Scale == 10^6
Kilo == 10^3
RateDen == 10^3
\* percentiles are counted in hundredths
PercentDen == 10^2

Num(w, f) == [w |-> w, f |-> f]
IntNum(n) == Num(n, 0)

\* Math.round: the nearest integer, halves towards +Infinity
MathRound(x) == x.w + (IF 2 * x.f >= Scale THEN 1 ELSE 0)

NumAdd(x, y) ==
    LET fs == x.f + y.f
    IN  Num(x.w + y.w + fs \div Scale, fs % Scale)

NumSub(x, y) ==
    LET fd == x.f - y.f
    IN  IF fd >= 0 THEN Num(x.w - y.w, fd) ELSE Num(x.w - y.w - 1, fd + Scale)

NumLeq(x, y) == x.w < y.w \/ (x.w = y.w /\ x.f <= y.f)

\* a * F / Scale for an integer a >= 0 and a fixed-point factor F >= 0, exactly
\* (both split in base Kilo; no partial product exceeds the result's range)
MulInt(a, F) ==
    LET a2 == a \div Scale
        a1 == (a \div Kilo) % Kilo
        a0 == a % Kilo
        F2 == F \div Scale
        F1 == (F \div Kilo) % Kilo
        F0 == F % Kilo
        lo == a1 * F0 + a0 * F1
        fs == (lo % Kilo) * Kilo + a0 * F0
    IN  Num(a2 * F2 * Scale + (a2 * F1 + a1 * F2) * Kilo
              + a2 * F0 + a1 * F1 + a0 * F2 + lo \div Kilo + fs \div Scale,
            fs % Scale)

\* x * F / Scale for a fixed-point x >= 0, rounded to the nearest micro-unit
MulNum(x, F) ==
    LET fr == MulInt(x.f, F)
    IN  NumAdd(MulInt(x.w, F), Num(0, MathRound(fr)))

\* 1 + r / (RateDen * periods) as a fixed-point factor, to the nearest micro-unit
OnePlus(r, periods) ==
    LET d == RateDen * periods
    IN  Scale + (2 * Scale * r + d) \div (2 * d)

\* Math.pow(b / Scale, n) as a fixed-point factor (by repeated squaring, every
\* product rounded to the nearest micro-unit)
RECURSIVE MathPow(_, _)
MathPow(b, n) ==
    IF n = 0 THEN Scale
    ELSE CHOOSE result \in
            { IF n % 2 = 0 THEN sq ELSE MathRound(MulInt(sq, b)) :
              sq \in { MathRound(MulInt(h, h)) : h \in {MathPow(b, n \div 2)} } } :
            TRUE

----------------------------------------------------------------------------
(* Dates and the host's time zone *)

IsLeap(y) == (y % 4 = 0 /\ y % 100 # 0) \/ y % 400 = 0

DaysInMonth(y, m) ==
    IF m = 2 THEN (IF IsLeap(y) THEN 29 ELSE 28)
    ELSE IF m \in {4, 6, 9, 11} THEN 30 ELSE 31

PrevDay(date) ==
    LET y == date[1]
        m == date[2]
        d == date[3]
    IN  IF d > 1 THEN <<y, m, d - 1>>
        ELSE IF m > 1 THEN <<y, m - 1, DaysInMonth(y, m - 1)>>
        ELSE <<y - 1, 12, 31>>

\* new Date("YYYY-MM-DD").getFullYear(): the string is parsed as midnight UTC,
\* getFullYear answers in local time
getFullYear(date, zone) ==
    IF zone < 0 THEN PrevDay(date)[1] ELSE date[1]

\* new Date(year, month, 1).toISOString().split("T")[0]: midnight local time
\* of the 1st of month index `month` (0-based), rendered as its UTC date
toISODate(year, month, zone) ==
    IF zone > 0 THEN PrevDay(<<year, month + 1, 1>>) ELSE <<year, month + 1, 1>>

----------------------------------------------------------------------------
(* AssetStore: the calculators *)

\* a switch whose monthly case falls through to the yearly one
compoundingPeriodsFallThrough(compoundingFrequency) ==
    CASE compoundingFrequency = "daily" -> DailyPeriods
      [] OTHER -> YearlyPeriods

\* switch (compoundingFrequency): the number of compounding periods
compoundingPeriods(compoundingFrequency) ==
    CASE compoundingFrequency = "daily" -> DailyPeriods
      [] compoundingFrequency = "monthly" -> MonthlyPeriods
      [] OTHER -> YearlyPeriods

\* a gain taken as initialAmount - finalAmount
calculateCapitalGainReversed(initialAmount, annualRate, compoundingFrequency) ==
    LET periods == compoundingPeriods(compoundingFrequency)
    IN  CHOOSE result \in
            { [evaluationAmount |-> finalAmount,
               capitalGain |-> NumSub(initialAmount, finalAmount)] :
              finalAmount \in
                { MulNum(initialAmount, factor) :
                  factor \in {MathPow(OnePlus(annualRate, periods), periods)} } } :
            TRUE

\* calculateCapitalGain(initialAmount, annualRate, compoundingFrequency)
calculateCapitalGain(initialAmount, annualRate, compoundingFrequency) ==
    LET periods == compoundingPeriods(compoundingFrequency)
    IN  CHOOSE result \in
            { [evaluationAmount |-> finalAmount,
               capitalGain |-> NumSub(finalAmount, initialAmount)] :
              finalAmount \in
                { MulNum(initialAmount, factor) :
                  factor \in {MathPow(OnePlus(annualRate, periods), periods)} } } :
            TRUE

\* a switch whose default is the quarterly case
paymentsPerYearDefaultQuarterly(paymentFrequency) ==
    CASE paymentFrequency = "monthly" -> MonthlyPayments
      [] paymentFrequency = "yearly" -> YearlyPayments
      [] OTHER -> QuarterlyPayments

\* switch (paymentFrequency): the number of payments of one year
paymentsPerYear(paymentFrequency) ==
    CASE paymentFrequency = "monthly" -> MonthlyPayments
      [] paymentFrequency = "quarterly" -> QuarterlyPayments
      [] OTHER -> YearlyPayments

\* Math.floor((12 / paymentsPerYear) * i)
paymentMonth(perYear, i) == (MonthsPerYear * i) \div perYear

\* the rounded yearly dividend split evenly afterwards
roundedDividendSplit(amount, dividendYield, perYear) ==
    LET d == RateDen
        t == amount.w * dividendYield
    IN  (t \div d + (2 * (t % d) + d + (2 * amount.f * dividendYield) \div Scale) \div (2 * d))
            \div perYear

\* Math.round((amount * dividendYield) / paymentsPerYear)
roundedDividend(amount, dividendYield, perYear) ==
    LET d == RateDen * perYear
        t == amount.w * dividendYield
    IN  t \div d + (2 * (t % d) + d + (2 * amount.f * dividendYield) \div Scale) \div (2 * d)

\* calculateDividends(amount, dividendYield, paymentFrequency, year)
calculateDividends(amount, dividendYield, paymentFrequency, year) ==
    LET perYear == paymentsPerYear(paymentFrequency)
    IN  [k \in 1..perYear |->
            [date |-> toISODate(year, paymentMonth(perYear, k - 1), tz),
             amount |-> roundedDividend(amount, dividendYield, perYear)]]

\* dividends.reduce((sum, div) => sum + div.amount, 0)
RECURSIVE sumAmounts(_)
sumAmounts(dividends) ==
    IF dividends = <<>> THEN 0
    ELSE Head(dividends).amount + sumAmounts(Tail(dividends))

\* dividends added whether or not they are reinvested
closingValueAlways(reinvestDividends, evaluationAmount, totalDividends) ==
    NumAdd(evaluationAmount, IntNum(totalDividends))

\* reinvestDividends ? evaluationAmount + totalDividends : evaluationAmount
closingValue(reinvestDividends, evaluationAmount, totalDividends) ==
    IF reinvestDividends
    THEN NumAdd(evaluationAmount, IntNum(totalDividends))
    ELSE evaluationAmount

\* a record whose capitalGains is the whole change of value, reinvested
\* dividends included
calculateYearPerformanceNetGain(year, startValue, returns) ==
    IF "incomeGain" \notin DOMAIN returns
    THEN [threw |-> TRUE]
    ELSE
        LET capitalGainResult ==
                calculateCapitalGain(startValue, returns.capitalGain.annualRate,
                                     returns.capitalGain.compoundingFrequency)
            dividends ==
                calculateDividends(startValue, returns.incomeGain.dividendYield,
                                   returns.incomeGain.paymentFrequency, year)
            totalDividends == sumAmounts(dividends)
            endValue ==
                closingValue(returns.incomeGain.reinvestDividends,
                             capitalGainResult.evaluationAmount, totalDividends)
        IN  [threw |-> FALSE,
             value |-> [year |-> year,
                        startValue |-> MathRound(startValue),
                        endValue |-> MathRound(endValue),
                        capitalGains |-> MathRound(NumSub(endValue, startValue)),
                        dividends |-> dividends,
                        totalDividends |-> totalDividends]]

\* calculateYearPerformance(year, startValue, returns): the record of one year,
\* or a TypeError when returns.incomeGain cannot be destructured
calculateYearPerformance(year, startValue, returns) ==
    IF "incomeGain" \notin DOMAIN returns
    THEN [threw |-> TRUE]
    ELSE
        LET capitalGainResult ==
                calculateCapitalGain(startValue, returns.capitalGain.annualRate,
                                     returns.capitalGain.compoundingFrequency)
            dividends ==
                calculateDividends(startValue, returns.incomeGain.dividendYield,
                                   returns.incomeGain.paymentFrequency, year)
            totalDividends == sumAmounts(dividends)
            endValue ==
                closingValue(returns.incomeGain.reinvestDividends,
                             capitalGainResult.evaluationAmount, totalDividends)
        IN  [threw |-> FALSE,
             value |-> [year |-> year,
                        startValue |-> MathRound(startValue),
                        endValue |-> MathRound(endValue),
                        capitalGains |-> MathRound(capitalGainResult.capitalGain),
                        dividends |-> dividends,
                        totalDividends |-> totalDividends]]

\* a carry of the year's opening value instead of its closing value
carryForwardStart(performance) == IntNum(performance.startValue)

\* currentAmount = performance.endValue
carryForward(performance) == IntNum(performance.endValue)

\* the loop of initializeYearlyPerformance: the records of the `count` years
\* from `year` on, starting with currentAmount.  The years are taken in order,
\* the first half before the second (which starts from the first half's last
\* endValue), to keep the evaluation shallow; a TypeError ends the loop.
RECURSIVE projectYears(_, _, _, _)
projectYears(year, count, currentAmount, returns) ==
    IF count <= 0
    THEN [threw |-> FALSE, value |-> <<>>]
    ELSE IF count = 1
    THEN CHOOSE result \in
            { IF performance.threw
              THEN [threw |-> TRUE, value |-> <<>>]
              ELSE [threw |-> FALSE, value |-> <<performance.value>>] :
              performance \in {calculateYearPerformance(year, currentAmount, returns)} } :
            TRUE
    ELSE CHOOSE result \in
            { IF first.threw
              THEN first
              ELSE CHOOSE both \in
                      { [threw |-> rest.threw, value |-> first.value \o rest.value] :
                        rest \in
                          {projectYears(year + count \div 2, count - count \div 2,
                                        carryForward(first.value[Len(first.value)]),
                                        returns)} } :
                      TRUE :
              first \in {projectYears(year, count \div 2, currentAmount, returns)} } :
            TRUE

\* initializeYearlyPerformance(startDate, maturityDate, initialAmount, returns)
initializeYearlyPerformance(startDate, maturityDate, initialAmount, returns) ==
    LET startYear == getFullYear(startDate, tz)
        endYear ==
            IF maturityDate # <<>>
            THEN getFullYear(maturityDate, tz)
            ELSE startYear + ProjectionHorizon
    IN  projectYears(startYear, endYear - startYear + 1, initialAmount, returns)

----------------------------------------------------------------------------
(* Inputs *)

TimeZones == {-5, 0, 9}

CompoundingFrequencies == {"yearly", "monthly", "daily", "weekly"}
PaymentFrequencies == {"yearly", "quarterly", "monthly", "weekly"}

CapitalGain(annualRate, compoundingFrequency) ==
    [annualRate |-> annualRate, compoundingFrequency |-> compoundingFrequency]

IncomeGain(dividendYield, paymentFrequency, reinvestDividends) ==
    [dividendYield |-> dividendYield, paymentFrequency |-> paymentFrequency,
     reinvestDividends |-> reinvestDividends]

\* a returns object without incomeGain, and complete ones
ReturnsNoIncome == [capitalGain |-> CapitalGain(50, "yearly")]
ReturnsYearly ==
    [capitalGain |-> CapitalGain(50, "yearly"),
     incomeGain |-> IncomeGain(0, "yearly", TRUE)]
ReturnsMonthly ==
    [capitalGain |-> CapitalGain(120, "monthly"),
     incomeGain |-> IncomeGain(30, "quarterly", TRUE)]
ReturnsDaily ==
    [capitalGain |-> CapitalGain(50, "daily"),
     incomeGain |-> IncomeGain(20, "yearly", FALSE)]
ReturnsQuarterly ==
    [capitalGain |-> CapitalGain(30, "yearly"),
     incomeGain |-> IncomeGain(20, "quarterly", FALSE)]
ReturnsUnknown ==
    [capitalGain |-> CapitalGain(-50, "weekly"),
     incomeGain |-> IncomeGain(20, "monthly", TRUE)]

AssetData(name, initialAmount, startDate, maturityDate, returns) ==
    [name |-> name, initialAmount |-> initialAmount, category |-> "stock",
     startDate |-> startDate, maturityDate |-> maturityDate, returns |-> returns]

\* the payloads of createAsset
CreateInputs ==
    { AssetData("a", IntNum(100000), <<2024, 1, 1>>, <<>>, ReturnsNoIncome),
      AssetData("a", IntNum(100000), <<2024, 1, 1>>, <<>>, ReturnsYearly),
      AssetData("a", IntNum(1000), <<2024, 6, 15>>, <<2026, 3, 31>>, ReturnsMonthly),
      AssetData("a", Num(1000, 500000), <<2024, 1, 1>>, <<2025, 12, 31>>, ReturnsUnknown),
      AssetData("a", IntNum(1000), <<2024, 6, 15>>, <<2023, 12, 31>>, ReturnsDaily) }

\* a yearlyPerformance entry as AssetModal.handleSubmit builds it
ModalPerformance ==
    << [year |-> 2024, actualEndValue |-> 1200, actualCapitalGains |-> 0,
        actualDividends |-> <<>>] >>

\* the payloads of updateAsset
UpdateInputs ==
    { [name |-> "b"],
      [returns |-> ReturnsQuarterly],
      [returns |-> ReturnsNoIncome],
      [maturityDate |-> <<2025, 1, 1>>],
      [startDate |-> <<2025, 1, 1>>],
      [yearlyPerformance |-> ModalPerformance],
      [initialAmount |-> IntNum(2000), yearlyPerformance |-> ModalPerformance] }

\* the payloads of updateActualPerformance
ActualYears == {2024, 2090}
ActualInputs ==
    { [endValue |-> 1100, capitalGains |-> 90, dividends |-> <<>>, totalDividends |-> 10],
      [endValue |-> 0, capitalGains |-> 0, dividends |-> <<>>, totalDividends |-> 0] }

\* the ids a caller may pass: those issued so far and one never issued
Ids == 1..(IF nextId < MaxAssets THEN nextId + 1 ELSE MaxAssets)

----------------------------------------------------------------------------
(* AssetStore: the operations *)

NoCalc == [fn |-> "none"]

\* the JavaScript values undefined and null where an id is expected
Undefined == "undefined"
Null == "null"

Init ==
    /\ assets = <<>>
    /\ nextId = 0
    /\ tz \in TimeZones
    /\ steps = 0
    /\ last = [op |-> "none", error |-> "none"]
    /\ calc = NoCalc
    /\ lifePlans = <<>>
    /\ activeLifePlanId = Null
    /\ nanoCount = 0

\* { ...a, ...b }
Spread(a, b) ==
    [k \in DOMAIN a \cup DOMAIN b |-> IF k \in DOMAIN b THEN b[k] ELSE a[k]]

\* this.assets.set(id, asset)
MapSet(map, id, asset) ==
    [k \in DOMAIN map \cup {id} |-> IF k = id THEN asset ELSE map[k]]

\* this.assets.delete(id)
MapDelete(map, id) == [k \in DOMAIN map \ {id} |-> map[k]]

\* createAsset(data); nanoid() answers an id never handed out before
createAsset(data) ==
    /\ nextId < MaxAssets
    /\ steps < MaxSteps
    /\ \E id \in {nextId + 1},
          performance \in {initializeYearlyPerformance(data.startDate, data.maturityDate,
                                                       data.initialAmount, data.returns)} :
        /\ nextId' = id
        /\ steps' = steps + 1
        /\ IF performance.threw
           THEN /\ assets' = assets
                /\ last' = [op |-> "createAsset", id |-> id, data |-> data,
                            error |-> "TypeError"]
           ELSE /\ assets' =
                       MapSet(assets, id,
                              Spread(Spread([id |-> id], data),
                                     [yearlyPerformance |-> performance.value]))
                /\ last' = [op |-> "createAsset", id |-> id, data |-> data,
                            error |-> "none"]
        /\ UNCHANGED <<tz, calc, planVars>>

\* a test that asks for a recomputation on every update
affectsValuationAlways(data) == TRUE

\* the test of updateAsset that decides on a recomputation
affectsValuation(data) ==
    \/ "initialAmount" \in DOMAIN data
    \/ "returns" \in DOMAIN data
    \/ "startDate" \in DOMAIN data
    \/ "maturityDate" \in DOMAIN data

\* updateAsset(id, data)
updateAsset(id, data) ==
    /\ steps < MaxSteps
    /\ steps' = steps + 1
    /\ IF id \in DOMAIN assets
       THEN \E updatedAsset \in {Spread(assets[id], data)} :
            IF affectsValuation(data)
            THEN \E performance \in
                        {initializeYearlyPerformance(
                            updatedAsset.startDate, updatedAsset.maturityDate,
                            updatedAsset.initialAmount, updatedAsset.returns)} :
                     IF performance.threw
                     THEN /\ assets' = assets
                          /\ last' = [op |-> "updateAsset", id |-> id, data |-> data,
                                      error |-> "TypeError"]
                     ELSE /\ assets' =
                                 MapSet(assets, id,
                                        Spread(updatedAsset,
                                               [yearlyPerformance |-> performance.value]))
                          /\ last' = [op |-> "updateAsset", id |-> id, data |-> data,
                                      error |-> "none"]
            ELSE /\ assets' = MapSet(assets, id, updatedAsset)
                 /\ last' = [op |-> "updateAsset", id |-> id, data |-> data,
                             error |-> "none"]
       ELSE /\ assets' = assets
            /\ last' = [op |-> "updateAsset", id |-> id, data |-> data,
                        error |-> "none"]
    /\ UNCHANGED <<nextId, tz, calc, planVars>>

\* deleteAsset(id)
deleteAsset(id) ==
    /\ steps < MaxSteps
    /\ steps' = steps + 1
    /\ assets' = MapDelete(assets, id)
    /\ last' = [op |-> "deleteAsset", id |-> id, error |-> "none"]
    /\ UNCHANGED <<nextId, tz, calc, planVars>>

\* a search that answers the last index when no record matches
findIndexOrLast(yearlyPerformance, year) ==
    IF \E i \in DOMAIN yearlyPerformance : yearlyPerformance[i].year = year
    THEN CHOOSE i \in DOMAIN yearlyPerformance :
            /\ yearlyPerformance[i].year = year
            /\ \A j \in DOMAIN yearlyPerformance :
                  yearlyPerformance[j].year = year => i <= j
    ELSE Len(yearlyPerformance)

\* asset.yearlyPerformance.findIndex((p) => p.year === year); 0 stands for -1
findIndex(yearlyPerformance, year) ==
    IF \E i \in DOMAIN yearlyPerformance : yearlyPerformance[i].year = year
    THEN CHOOSE i \in DOMAIN yearlyPerformance :
            /\ yearlyPerformance[i].year = year
            /\ \A j \in DOMAIN yearlyPerformance :
                  yearlyPerformance[j].year = year => i <= j
    ELSE 0

\* an overlay that also overwrites the projected closing value
actualOverlayClobber(actualData) ==
    [endValue |-> actualData.endValue,
     actualEndValue |-> actualData.endValue,
     actualCapitalGains |-> actualData.capitalGains,
     actualDividends |-> actualData.dividends,
     actualTotalDividends |-> actualData.totalDividends]

\* the overlay updateActualPerformance writes on the matched record
actualOverlay(actualData) ==
    [actualEndValue |-> actualData.endValue,
     actualCapitalGains |-> actualData.capitalGains,
     actualDividends |-> actualData.dividends,
     actualTotalDividends |-> actualData.totalDividends]

\* updateActualPerformance(id, year, actualData)
updateActualPerformance(id, year, actualData) ==
    /\ steps < MaxSteps
    /\ steps' = steps + 1
    /\ IF id \in DOMAIN assets
       THEN LET asset == assets[id]
                performanceIndex == findIndex(asset.yearlyPerformance, year)
            IN  IF performanceIndex # 0
                THEN assets' =
                        [assets EXCEPT ![id].yearlyPerformance[performanceIndex] =
                            Spread(@, actualOverlay(actualData))]
                ELSE assets' = assets
       ELSE assets' = assets
    /\ last' = [op |-> "updateActualPerformance", id |-> id, year |-> year,
                actualData |-> actualData, error |-> "none"]
    /\ UNCHANGED <<nextId, tz, calc, planVars>>

\* latestPerformance.actualEndValue || latestPerformance.endValue: the left
\* operand unless it is missing or 0, else the right one, which may be missing
latestValue(latestPerformance) ==
    IF "actualEndValue" \in DOMAIN latestPerformance
          /\ latestPerformance.actualEndValue # 0
    THEN [kind |-> "number", value |-> latestPerformance.actualEndValue]
    ELSE IF "endValue" \in DOMAIN latestPerformance
    THEN [kind |-> "number", value |-> latestPerformance.endValue]
    ELSE [kind |-> "undefined"]

\* total + value: NaN once an operand is undefined or NaN
plus(total, value) ==
    IF total.kind = "number" /\ value.kind = "number"
    THEN [kind |-> "number", value |-> total.value + value.value]
    ELSE [kind |-> "NaN"]

\* the reduce of totalAssetValue over the assets with the given ids; reading
\* the last record of an empty sequence is a TypeError
RECURSIVE reduceLatest(_)
reduceLatest(ids) ==
    IF ids = {}
    THEN [kind |-> "number", value |-> 0]
    ELSE LET id == CHOOSE i \in ids : \A j \in ids : i >= j
             yearlyPerformance == assets[id].yearlyPerformance
             total == reduceLatest(ids \ {id})
         IN  IF total.kind = "TypeError" \/ yearlyPerformance = <<>>
             THEN [kind |-> "TypeError"]
             ELSE plus(total, latestValue(yearlyPerformance[Len(yearlyPerformance)]))

\* get totalAssetValue()
totalAssetValue == reduceLatest(DOMAIN assets)

Next ==
    \/ \E data \in CreateInputs : createAsset(data)
    \/ \E id \in Ids, data \in UpdateInputs : updateAsset(id, data)
    \/ \E id \in Ids : deleteAsset(id)
    \/ \E id \in Ids, year \in ActualYears, actualData \in ActualInputs :
          updateActualPerformance(id, year, actualData)

Spec == Init /\ [][Next]_vars

----------------------------------------------------------------------------
(* AssetStore: the Monte Carlo simulation *)

\* the values 1 + randomReturn = Math.exp(...) of the random draws, as
\* fixed-point factors: positive numbers
GrowthFactors == {Scale \div 2, 2 * Scale}

\* the number of rounds of `for (i = 0; i < n; i++)`
loopCount(n) == IF n > 0 THEN n ELSE 0

\* value after `value *= 1 + randomReturn` for the first k draws of a path
RECURSIVE valueAfter(_, _, _)
valueAfter(value, growth, k) ==
    IF k = 0 THEN value
    ELSE MulNum(valueAfter(value, growth, k - 1), growth[k])

\* path = [value], then one push per year
simulatePath(initialAmount, years, growth) ==
    [k \in 1..(loopCount(years) + 1) |-> valueAfter(initialAmount, growth, k - 1)]

NumLess(x, y) == ~NumLeq(y, x)

\* the final values left in the order of the paths
sortNone(finalValues) == finalValues

\* finalValues.sort((a, b) => a - b)
sortAscending(finalValues) == SortSeq(finalValues, NumLess)

\* the index rounded up
percentileIndexCeil(length, percentile) ==
    (length * percentile + PercentDen - 1) \div PercentDen

\* Math.floor(sortedArray.length * percentile)
percentileIndex(length, percentile) == (length * percentile) \div PercentDen

\* getPercentile(sortedArray, percentile): sortedArray[index], undefined when
\* the (0-based) index is not one of the array
getPercentile(sortedArray, percentile) ==
    LET index == percentileIndex(Len(sortedArray), percentile)
    IN  IF index < Len(sortedArray)
        THEN [kind |-> "number", value |-> sortedArray[index + 1]]
        ELSE [kind |-> "undefined"]

\* the SimulationResult of the paths
simulationResult(results) ==
    LET finalValues ==
            sortAscending([i \in DOMAIN results |-> results[i][Len(results[i])]])
    IN  [kind |-> "result",
         bestCase |-> getPercentile(finalValues, BestCasePercentile),
         expected |-> getPercentile(finalValues, ExpectedPercentile),
         worstCase |-> getPercentile(finalValues, WorstCasePercentile),
         paths |-> results]

\* a simulation that keeps the last value of its first path as the asset's
\* initialAmount
runMonteCarloSimulationStoring(assetId, years, iterations, growth) ==
    /\ calc' = [fn |-> "runMonteCarloSimulation",
                assetId |-> assetId,
                years |-> years,
                iterations |-> iterations,
                growth |-> growth,
                result |->
                    IF assetId \notin DOMAIN assets
                    THEN [kind |-> "null"]
                    ELSE simulationResult(
                             [i \in 1..loopCount(iterations) |->
                                 simulatePath(assets[assetId].initialAmount,
                                              years, growth[i])])]
    /\ assets' =
          IF assetId \in DOMAIN assets /\ iterations > 0
          THEN [assets EXCEPT ![assetId].initialAmount =
                   valueAfter(@, growth[1], loopCount(years))]
          ELSE assets
    /\ UNCHANGED <<nextId, tz, steps, last, planVars>>

\* runMonteCarloSimulation(assetId, years, iterations), growth[i][year] being
\* the factor drawn for year `year` of path i
runMonteCarloSimulation(assetId, years, iterations, growth) ==
    /\ calc' = [fn |-> "runMonteCarloSimulation",
                assetId |-> assetId,
                years |-> years,
                iterations |-> iterations,
                growth |-> growth,
                result |->
                    IF assetId \notin DOMAIN assets
                    THEN [kind |-> "null"]
                    ELSE simulationResult(
                             [i \in 1..loopCount(iterations) |->
                                 simulatePath(assets[assetId].initialAmount,
                                              years, growth[i])])]
    /\ UNCHANGED <<assets, nextId, tz, steps, last, planVars>>

\* the assets simulated and the calls made
SimulatedInputs == {data \in CreateInputs : data.returns \in {ReturnsYearly, ReturnsUnknown}}
SimulationCalls ==
    { [years |-> -1, iterations |-> 2], [years |-> 0, iterations |-> 1],
      [years |-> 1, iterations |-> 3], [years |-> 2, iterations |-> 1],
      [years |-> 2, iterations |-> 2], [years |-> 1, iterations |-> 0],
      [years |-> 2, iterations |-> -1] }

NextSim ==
    \/ \E data \in SimulatedInputs : createAsset(data)
    \/ \E assetId \in Ids, call \in SimulationCalls :
         \E growth \in [1..loopCount(call.iterations) ->
                           [1..loopCount(call.years) -> GrowthFactors]] :
            runMonteCarloSimulation(assetId, call.years, call.iterations, growth)

SpecSim == Init /\ [][NextSim]_vars

----------------------------------------------------------------------------
(* AssetStore: serialize, hydrate and reset *)

\* the assets with the given ids in the order of the map, the order in which
\* their ids were handed out
RECURSIVE valuesOf(_)
valuesOf(ids) ==
    IF ids = {} THEN <<>>
    ELSE LET id == CHOOSE i \in ids : \A j \in ids : i <= j
         IN  <<assets[id]>> \o valuesOf(ids \ {id})

\* serialize(): Array.from(this.assets.values())
serialize == valuesOf(DOMAIN assets)

\* an asset stored with a sequence projected anew from its fields
hydratedReprojected(map, asset) ==
    LET performance ==
            initializeYearlyPerformance(asset.startDate, asset.maturityDate,
                                        asset.initialAmount, asset.returns)
    IN  MapSet(map, asset.id,
               IF performance.threw THEN asset
               ELSE Spread(asset, [yearlyPerformance |-> performance.value]))

\* this.assets.set(asset.id, asset)
hydrated(map, asset) == MapSet(map, asset.id, asset)

\* data.forEach((asset) => ...)
RECURSIVE setAll(_, _)
setAll(map, data) ==
    IF data = <<>> THEN map
    ELSE setAll(hydrated(map, Head(data)), Tail(data))

\* the largest id among the supplied assets (0 when there is none)
RECURSIVE maxId(_)
maxId(data) ==
    IF data = <<>> THEN 0
    ELSE LET rest == maxId(Tail(data))
         IN  IF Head(data).id > rest THEN Head(data).id ELSE rest

\* hydrate(data); the ids of the supplied assets were handed out by nanoid when
\* they were created, so the ids handed out later differ from them too
hydrate(data) ==
    /\ steps < MaxSteps
    /\ steps' = steps + 1
    /\ assets' = setAll(<<>>, data)
    /\ nextId' = (IF maxId(data) > nextId THEN maxId(data) ELSE nextId)
    /\ last' = [op |-> "hydrate", data |-> data, error |-> "none"]
    /\ UNCHANGED <<tz, calc, planVars>>

\* reset()
reset ==
    /\ steps < MaxSteps
    /\ steps' = steps + 1
    /\ assets' = <<>>
    /\ last' = [op |-> "reset", error |-> "none"]
    /\ UNCHANGED <<nextId, tz, calc, planVars>>

\* an asset saved by an earlier session: its second year reconciled, its
\* projected values those of the returns it had before an edit of its sequence
SavedPerformance ==
    << [year |-> 2020, startValue |-> 500, endValue |-> 540, capitalGains |-> 40,
        dividends |-> <<>>, totalDividends |-> 0],
       [year |-> 2021, startValue |-> 540, endValue |-> 583, capitalGains |-> 43,
        dividends |-> <<>>, totalDividends |-> 0,
        actualEndValue |-> 600, actualCapitalGains |-> 60,
        actualDividends |-> <<>>, actualTotalDividends |-> 0] >>
SavedAsset ==
    Spread(Spread([id |-> 1],
                  AssetData("s", IntNum(500), <<2020, 4, 1>>, <<2021, 12, 31>>,
                            ReturnsYearly)),
           [yearlyPerformance |-> SavedPerformance])

\* the arrays handed to hydrate besides the store's own serialize()
SavedData == {<<>>, <<SavedAsset>>}

\* the assets created before a save
PersistedInputs ==
    {data \in CreateInputs :
        data.maturityDate # <<>> /\ data.returns \in {ReturnsMonthly, ReturnsUnknown}}

NextPersist ==
    \/ \E data \in PersistedInputs : createAsset(data)
    \/ \E id \in Ids, year \in ActualYears, actualData \in ActualInputs :
          updateActualPerformance(id, year, actualData)
    \/ \E data \in SavedData \cup {serialize} : hydrate(data)
    \/ reset

SpecPersist == Init /\ [][NextPersist]_vars

----------------------------------------------------------------------------
(* The validators *)

\* new Date(a) < new Date(b) for two date-only strings (both midnight UTC)
dateLess(a, b) ==
    \/ a[1] < b[1]
    \/ (a[1] = b[1] /\ a[2] < b[2])
    \/ (a[1] = b[1] /\ a[2] = b[2] /\ a[3] < b[3])

\* validatePercentage: a number in 0 .. 1
validatePercentage(rate) == 0 <= rate /\ rate <= RateDen

\* validateAmount: a number >= 0 that is an integer
validateAmount(amount) == amount.w >= 0 /\ amount.f = 0

\* validateAsset(data): the field of the ValidationError thrown, or "ok" (the
\* names are strings of at most 100 characters, the start dates valid dates)
validateAsset(data) ==
    IF data.name = "" THEN "name"
    ELSE IF ~validateAmount(data.initialAmount) THEN "initialAmount"
    ELSE IF data.category = "" THEN "category"
    ELSE IF data.maturityDate # <<>> /\ dateLess(data.maturityDate, data.startDate)
    THEN "maturityDate"
    ELSE IF ~validatePercentage(data.returns.capitalGain.annualRate) THEN "annualRate"
    ELSE IF data.returns.capitalGain.compoundingFrequency
                \notin {"yearly", "monthly", "daily"}
    THEN "compoundingFrequency"
    ELSE IF "incomeGain" \notin DOMAIN data.returns THEN "ok"
    ELSE IF ~validatePercentage(data.returns.incomeGain.dividendYield)
    THEN "dividendYield"
    ELSE IF data.returns.incomeGain.paymentFrequency
                \notin {"yearly", "quarterly", "monthly"}
    THEN "paymentFrequency"
    ELSE "ok"

\* AssetModal.validateForm on the fields of data: the message set, or "ok"
validateForm(data) ==
    IF data.name = "" THEN "name"
    ELSE IF NumLeq(data.initialAmount, IntNum(0)) THEN "initialAmount"
    ELSE IF data.category = "" THEN "category"
    ELSE IF data.maturityDate # <<>> /\ ~dateLess(data.startDate, data.maturityDate)
    THEN "maturityDate"
    ELSE "ok"

\* the assets validated: every maturity around the start date, with whole and
\* fractional amounts, named and unnamed, with valid and invalid returns
ValidatedInputs ==
    { AssetData(name, initialAmount, <<2024, 6, 15>>, maturityDate, returns) :
        name \in {"a", ""},
        initialAmount \in {IntNum(1000), Num(1000, 500000)},
        maturityDate \in {<<>>, <<2023, 12, 31>>, <<2024, 6, 15>>, <<2024, 6, 16>>},
        returns \in {ReturnsNoIncome, ReturnsMonthly, ReturnsUnknown} }

applyValidateAsset(data) ==
    /\ calc' = [fn |-> "validateAsset", data |-> data, result |-> validateAsset(data)]
    /\ UNCHANGED <<assets, nextId, tz, steps, last, planVars>>

applyValidateForm(data) ==
    /\ calc' = [fn |-> "validateForm", data |-> data, result |-> validateForm(data)]
    /\ UNCHANGED <<assets, nextId, tz, steps, last, planVars>>

----------------------------------------------------------------------------
(* The calculators applied directly *)

CalcAmounts == {IntNum(0), IntNum(1000), Num(1000, 500000), IntNum(100000)}
CalcRates == {-50, 0, 50, 120}
CalcYields == {0, 20, 30}
CalcYears == {2024, 2025}

applyCapitalGain(initialAmount, annualRate, compoundingFrequency) ==
    /\ calc' = [fn |-> "calculateCapitalGain",
                initialAmount |-> initialAmount,
                annualRate |-> annualRate,
                compoundingFrequency |-> compoundingFrequency,
                result |-> calculateCapitalGain(initialAmount, annualRate,
                                                compoundingFrequency)]
    /\ UNCHANGED <<assets, nextId, tz, steps, last, planVars>>

applyDividends(amount, dividendYield, paymentFrequency, year) ==
    /\ calc' = [fn |-> "calculateDividends",
                amount |-> amount,
                dividendYield |-> dividendYield,
                paymentFrequency |-> paymentFrequency,
                year |-> year,
                result |-> calculateDividends(amount, dividendYield,
                                              paymentFrequency, year)]
    /\ UNCHANGED <<assets, nextId, tz, steps, last, planVars>>

\* the opening amounts and returns objects handed to calculateYearPerformance
YearAmounts == {IntNum(1000), Num(899, 500000), IntNum(100000)}
YearReturns ==
    {ReturnsNoIncome, ReturnsYearly, ReturnsMonthly, ReturnsDaily,
     ReturnsQuarterly, ReturnsUnknown}

applyYearPerformance(year, startValue, returns) ==
    /\ calc' = [fn |-> "calculateYearPerformance",
                year |-> year,
                startValue |-> startValue,
                returns |-> returns,
                result |-> calculateYearPerformance(year, startValue, returns)]
    /\ UNCHANGED <<assets, nextId, tz, steps, last, planVars>>

\* sorted lists of 0 to 21 values, and the three percentiles
MaxListLen == 21
PercentileLists == {[k \in 1..n |-> IntNum(100 * k)] : n \in 0..MaxListLen}
Percentiles == {WorstCasePercentile, ExpectedPercentile, BestCasePercentile}

applyPercentile(sortedArray, percentile) ==
    /\ calc' = [fn |-> "getPercentile",
                sortedArray |-> sortedArray,
                percentile |-> percentile,
                index |-> percentileIndex(Len(sortedArray), percentile),
                result |-> getPercentile(sortedArray, percentile)]
    /\ UNCHANGED <<assets, nextId, tz, steps, last, planVars>>

NextCalc ==
    \/ \E initialAmount \in CalcAmounts, annualRate \in CalcRates,
          compoundingFrequency \in CompoundingFrequencies :
          applyCapitalGain(initialAmount, annualRate, compoundingFrequency)
    \/ \E amount \in CalcAmounts, dividendYield \in CalcYields,
          paymentFrequency \in PaymentFrequencies, year \in CalcYears :
          applyDividends(amount, dividendYield, paymentFrequency, year)
    \/ \E year \in CalcYears, startValue \in YearAmounts, returns \in YearReturns :
          applyYearPerformance(year, startValue, returns)
    \/ \E sortedArray \in PercentileLists, percentile \in Percentiles :
          applyPercentile(sortedArray, percentile)
    \/ \E data \in ValidatedInputs : applyValidateAsset(data)
    \/ \E data \in ValidatedInputs : applyValidateForm(data)

SpecCalc == Init /\ [][NextCalc]_vars

----------------------------------------------------------------------------
(* LifePlanStore, the home screen and the asset tab of a year *)

JsNumber(value) == [kind |-> "number", value |-> value]
JsUndefined == [kind |-> "undefined"]
JsNaN == [kind |-> "NaN"]

\* data.key as JavaScript reads it: undefined when data has no such key
property(data, key) ==
    IF key \in DOMAIN data THEN JsNumber(data[key]) ELSE JsUndefined

\* lifePlan.id of a record whose id key may be missing
idOf(lifePlan) == IF "id" \in DOMAIN lifePlan THEN lifePlan.id ELSE Undefined

\* the n-th id nanoid() hands out
nanoid(n) == ToString(n)

\* the number of rounds of for (let i = 0; i < lifespan; i++): none when
\* lifespan is undefined
rounds(lifespan) ==
    IF lifespan.kind = "number" /\ lifespan.value > 0 THEN lifespan.value ELSE 0

\* startYear + i
yearPlus(startYear, i) ==
    IF startYear.kind = "number" THEN JsNumber(startYear.value + i) ELSE JsNaN

\* generateYearlyFinances(startYear, lifespan), `count` ids having been handed
\* out before
generateYearlyFinances(startYear, lifespan, count) ==
    [n \in 1..rounds(lifespan) |->
        [id |-> nanoid(count + n),
         year |-> yearPlus(startYear, n - 1),
         events |-> <<>>,
         incomes |-> <<>>,
         expenses |-> <<>>,
         assets |-> <<>>]]

\* the record createLifePlan stores under id: { id, ...data, yearlyFinances }
createdLifePlan(id, data, count) ==
    Spread(Spread([id |-> id], data),
           [yearlyFinances |->
               generateYearlyFinances(property(data, "startYear"),
                                      property(data, "lifespan"), count)])

\* the effect of createLifePlan(data) on the store
storeLifePlan(data) ==
    \E id \in {nanoid(nanoCount + 1)} :
        /\ lifePlans' = MapSet(lifePlans, id, createdLifePlan(id, data, nanoCount + 1))
        /\ activeLifePlanId' = id
        /\ nanoCount' = nanoCount + 1 + rounds(property(data, "lifespan"))

\* createLifePlan(data)
createLifePlan(data) ==
    /\ steps < MaxSteps
    /\ steps' = steps + 1
    /\ storeLifePlan(data)
    /\ last' = [op |-> "createLifePlan", id |-> nanoid(nanoCount + 1), data |-> data,
                error |-> "none"]
    /\ UNCHANGED assetVars

\* updateLifePlan(id, data)
updateLifePlan(id, data) ==
    /\ steps < MaxSteps
    /\ steps' = steps + 1
    /\ IF id \in DOMAIN lifePlans
       THEN /\ lifePlans' =
                  MapSet(lifePlans, id,
                         Spread(Spread(lifePlans[id], data),
                                [yearlyFinances |->
                                    generateYearlyFinances(
                                        property(data, "startYear"),
                                        property(data, "lifespan"), nanoCount)]))
            /\ nanoCount' = nanoCount + rounds(property(data, "lifespan"))
       ELSE UNCHANGED <<lifePlans, nanoCount>>
    /\ last' = [op |-> "updateLifePlan", id |-> id, data |-> data, error |-> "none"]
    /\ UNCHANGED <<activeLifePlanId, assetVars>>

\* deleteLifePlan(id)
deleteLifePlan(id) ==
    /\ steps < MaxSteps
    /\ steps' = steps + 1
    /\ lifePlans' = MapDelete(lifePlans, id)
    /\ activeLifePlanId' = IF activeLifePlanId = id THEN Null ELSE activeLifePlanId
    /\ last' = [op |-> "deleteLifePlan", id |-> id, error |-> "none"]
    /\ UNCHANGED <<nanoCount, assetVars>>

\* the data copyLifePlan hands to createLifePlan
copiedData(lifePlan) ==
    Spread(lifePlan, [name |-> lifePlan.name \o " (copy)", id |-> Undefined])

\* copyLifePlan(id)
copyLifePlan(id) ==
    /\ steps < MaxSteps
    /\ steps' = steps + 1
    /\ IF id \in DOMAIN lifePlans
       THEN storeLifePlan(copiedData(lifePlans[id]))
       ELSE UNCHANGED planVars
    /\ last' = [op |-> "copyLifePlan", id |-> id, error |-> "none"]
    /\ UNCHANGED assetVars

\* HomeScreen.handleSelect(lifePlan) on a row of the list
handleSelect(lifePlan) ==
    /\ steps < MaxSteps
    /\ steps' = steps + 1
    /\ activeLifePlanId' = idOf(lifePlan)
    /\ last' = [op |-> "handleSelect", id |-> idOf(lifePlan), error |-> "none"]
    /\ UNCHANGED <<lifePlans, nanoCount, assetVars>>

\* the place of a key in the order of the map: the keys nanoid handed out
\* come in the order they were handed out, after the key undefined
keyOrder(key) ==
    IF key = Undefined THEN 0
    ELSE CHOOSE n \in 1..nanoCount : nanoid(n) = key

\* the life plans under the given keys in the order of the map
RECURSIVE valuesOfPlans(_)
valuesOfPlans(keys) ==
    IF keys = {} THEN <<>>
    ELSE LET key == CHOOSE k \in keys : \A j \in keys : keyOrder(k) <= keyOrder(j)
         IN  <<lifePlans[key]>> \o valuesOfPlans(keys \ {key})

\* serialize(): Array.from(this.lifePlans.values())
serializeLifePlans == valuesOfPlans(DOMAIN lifePlans)

\* JSON.parse(JSON.stringify(value)) of a year: NaN is written as null
savedYear(year) == IF year.kind = "NaN" THEN [kind |-> "null"] ELSE year

\* JSON.parse(JSON.stringify(lifePlan)): a key whose value is undefined is not
\* written
savedLifePlan(lifePlan) ==
    LET written ==
            IF idOf(lifePlan) = Undefined
            THEN [k \in DOMAIN lifePlan \ {"id"} |-> lifePlan[k]]
            ELSE lifePlan
    IN  Spread(written,
               [yearlyFinances |->
                   [n \in DOMAIN lifePlan.yearlyFinances |->
                       Spread(lifePlan.yearlyFinances[n],
                              [year |-> savedYear(lifePlan.yearlyFinances[n].year)])]])

\* the array saveToStorage writes and loadFromStorage or importData reads back
savedLifePlans ==
    [n \in DOMAIN serializeLifePlans |-> savedLifePlan(serializeLifePlans[n])]

\* this.lifePlans.set(lifePlan.id, lifePlan)
hydratedLifePlan(map, lifePlan) == MapSet(map, idOf(lifePlan), lifePlan)

\* data.forEach((lifePlan) => ...)
RECURSIVE setAllPlans(_, _)
setAllPlans(map, data) ==
    IF data = <<>> THEN map
    ELSE setAllPlans(hydratedLifePlan(map, Head(data)), Tail(data))

\* LifePlanStore.hydrate(data)
hydrateLifePlans(data) ==
    /\ steps < MaxSteps
    /\ steps' = steps + 1
    /\ lifePlans' = setAllPlans(<<>>, data)
    /\ last' = [op |-> "hydrateLifePlans", data |-> data, error |-> "none"]
    /\ UNCHANGED <<activeLifePlanId, nanoCount, assetVars>>

\* LifePlanStore.reset()
resetLifePlans ==
    /\ steps < MaxSteps
    /\ steps' = steps + 1
    /\ lifePlans' = <<>>
    /\ activeLifePlanId' = Null
    /\ last' = [op |-> "resetLifePlans", error |-> "none"]
    /\ UNCHANGED <<nanoCount, assetVars>>

\* updateYearlyFinance(lifePlanId, yearlyFinanceId, data): the map afterwards
updateYearlyFinance(lifePlanId, yearlyFinanceId, data) ==
    IF lifePlanId \in DOMAIN lifePlans
    THEN [lifePlans EXCEPT ![lifePlanId].yearlyFinances =
            [n \in DOMAIN @ |->
                IF n = (CHOOSE i \in DOMAIN @ \cup {0} :
                           \/ /\ i # 0
                              /\ @[i].id = yearlyFinanceId
                              /\ \A j \in 1..(i - 1) : @[j].id # yearlyFinanceId
                           \/ /\ i = 0
                              /\ \A j \in DOMAIN @ : @[j].id # yearlyFinanceId)
                THEN Spread(@[n], data)
                ELSE @[n]]]
    ELSE lifePlans

\* the state of the AssetModal form when it is submitted
ModalForm(actualEndValue) ==
    Spread(AssetData("a", IntNum(1000), <<2024, 6, 15>>, <<2026, 3, 31>>, ReturnsMonthly),
           [year |-> 2024, actualEndValue |-> actualEndValue,
            actualCapitalGains |-> 0, actualDividends |-> <<>>])

ModalForms == {ModalForm(0), ModalForm(1200)}

\* the payload AssetModal.handleSubmit hands to onSubmit for a form that
\* validateForm accepts
handleSubmit(form) ==
    LET data == AssetData(form.name, form.initialAmount, form.startDate,
                          form.maturityDate, form.returns)
    IN  IF form.actualEndValue # 0 \/ form.actualCapitalGains # 0
           \/ Len(form.actualDividends) > 0
        THEN Spread(data,
                    [yearlyPerformance |->
                        << [year |-> form.year,
                            actualEndValue |-> form.actualEndValue,
                            actualCapitalGains |-> form.actualCapitalGains,
                            actualDividends |-> form.actualDividends] >>])
        ELSE data

\* AssetTab.handleCreate(data) on the tab of year yearData of plan lifePlanId
handleCreate(lifePlanId, yearData, form) ==
    /\ steps < MaxSteps
    /\ steps' = steps + 1
    /\ validateForm(form) = "ok"
    /\ \E data \in {handleSubmit(form)} :
          /\ lifePlans' =
                updateYearlyFinance(
                    lifePlanId, yearData.id,
                    [assets |-> Append(yearData.assets,
                                       Spread([id |-> nanoid(nanoCount + 1)], data))])
          /\ last' = [op |-> "handleCreate", id |-> lifePlanId, year |-> yearData.id,
                      data |-> data, error |-> "none"]
    /\ nanoCount' = nanoCount + 1
    /\ UNCHANGED <<activeLifePlanId, assetVars>>

\* AssetTab.handleUpdate(data) with editingAsset one of the year's assets
handleUpdate(lifePlanId, yearData, editingAsset, form) ==
    /\ steps < MaxSteps
    /\ steps' = steps + 1
    /\ validateForm(form) = "ok"
    /\ \E data \in {handleSubmit(form)} :
          /\ lifePlans' =
                updateYearlyFinance(
                    lifePlanId, yearData.id,
                    [assets |->
                        [n \in DOMAIN yearData.assets |->
                            IF yearData.assets[n].id = editingAsset.id
                            THEN Spread(yearData.assets[n], data)
                            ELSE yearData.assets[n]]])
          /\ last' = [op |-> "handleUpdate", id |-> lifePlanId, year |-> yearData.id,
                      data |-> data, error |-> "none"]
    /\ UNCHANGED <<activeLifePlanId, nanoCount, assetVars>>

\* the form data LifePlanModal submits for a new plan
PlanInputs == {[name |-> "p", startYear |-> 2024, lifespan |-> 2]}

\* the data of updateLifePlan: the edit modal's form data (the selected plan
\* with a field edited or not), and partial data
PlanUpdates(lifePlan) ==
    { lifePlan,
      Spread(lifePlan, [name |-> "q"]),
      [name |-> "q"],
      [lifespan |-> 1],
      [name |-> "q", startYear |-> 2025, lifespan |-> 1] }

\* the ids the home screen passes: the keys of the map and selectedLifePlan.id
\* of a plan without an id
PlanIds == DOMAIN lifePlans \cup {Undefined}

\* the elements of a sequence
Range(seq) == {seq[n] : n \in DOMAIN seq}

NextPlans ==
    \/ \E data \in PlanInputs : createLifePlan(data)
    \/ \E id \in DOMAIN lifePlans :
          \E data \in PlanUpdates(lifePlans[id]) :
             updateLifePlan(idOf(lifePlans[id]), data)
    \/ \E id \in PlanIds, data \in {[name |-> "q"]} : updateLifePlan(id, data)
    \/ \E id \in PlanIds : deleteLifePlan(id)
    \/ \E id \in PlanIds : copyLifePlan(id)
    \/ \E lifePlan \in Range(serializeLifePlans) : handleSelect(lifePlan)
    \/ \E data \in {<<>>, savedLifePlans} : hydrateLifePlans(data)
    \/ resetLifePlans
    \/ \E id \in DOMAIN lifePlans :
          \E yearData \in Range(lifePlans[id].yearlyFinances), form \in ModalForms :
             handleCreate(id, yearData, form)
    \/ \E id \in DOMAIN lifePlans :
          \E yearData \in Range(lifePlans[id].yearlyFinances), form \in ModalForms :
             \E editingAsset \in Range(yearData.assets) :
                handleUpdate(id, yearData, editingAsset, form)

SpecPlans == Init /\ [][NextPlans]_vars

----------------------------------------------------------------------------
(* Properties of the store *)

\* a sequence the projection produced (every record carries the projected fields)
IsProjected(yearlyPerformance) ==
    \A i \in DOMAIN yearlyPerformance : "startValue" \in DOMAIN yearlyPerformance[i]

ChainHolds(yearlyPerformance) ==
    \A n \in 1..(Len(yearlyPerformance) - 1) :
        yearlyPerformance[n + 1].startValue = yearlyPerformance[n].endValue

\* C1 (as stated): in every projected sequence each record's startValue equals
\* the previous record's endValue, and the first record's startValue equals
\* the asset's initialAmount
C1_ChainAndExactPrincipal ==
    \A id \in DOMAIN assets :
        LET yp == assets[id].yearlyPerformance
        IN  (IsProjected(yp) /\ yp # <<>>) =>
                /\ ChainHolds(yp)
                /\ IntNum(yp[1].startValue) = assets[id].initialAmount

\* C1 (amended): in every projected sequence each record's startValue equals
\* the previous record's endValue, and the first record's startValue equals
\* Math.round(initialAmount), which is initialAmount when that is whole
C1_ChainInvariant ==
    \A id \in DOMAIN assets :
        LET yp == assets[id].yearlyPerformance
        IN  (IsProjected(yp) /\ yp # <<>>) =>
                /\ ChainHolds(yp)
                /\ yp[1].startValue = MathRound(assets[id].initialAmount)

\* a projected sequence of several years whose principal carries a fraction,
\* with a reconciled year in it
C1_Witness ==
    \E id \in DOMAIN assets :
        LET yp == assets[id].yearlyPerformance
        IN  /\ IsProjected(yp)
            /\ Len(yp) >= 2
            /\ assets[id].initialAmount.f # 0
            /\ yp[2].startValue # yp[1].startValue
            /\ \E i \in DOMAIN yp : "actualEndValue" \in DOMAIN yp[i]

\* whether date a is after date b
DateAfter(a, b) ==
    \/ a[1] > b[1]
    \/ (a[1] = b[1] /\ a[2] > b[2])
    \/ (a[1] = b[1] /\ a[2] = b[2] /\ a[3] > b[3])

\* C2: createAsset with a complete returns object and a maturityDate that is
\* absent or after startDate stores endYear - startYear + 1 records for the
\* years startYear .. endYear in ascending contiguous order, where startYear
\* is the year of startDate and endYear the year of maturityDate, or
\* startYear + 50 (51 records) when there is no maturityDate
C2_OneRecordPerCalendarYear ==
    ( /\ last.op = "createAsset"
      /\ "incomeGain" \in DOMAIN last.data.returns
      /\ \/ last.data.maturityDate = <<>>
         \/ DateAfter(last.data.maturityDate, last.data.startDate) ) =>
        /\ last.error = "none"
        /\ last.id \in DOMAIN assets
        /\ LET yp == assets[last.id].yearlyPerformance
               startYear == last.data.startDate[1]
               endYear == IF last.data.maturityDate # <<>>
                          THEN last.data.maturityDate[1]
                          ELSE startYear + 50
           IN  /\ Len(yp) = endYear - startYear + 1
               /\ \A i \in DOMAIN yp : yp[i].year = startYear + i - 1
               /\ (last.data.maturityDate = <<>> => Len(yp) = 51)

\* C3: after updateAsset(id, data) on an existing asset with data defining
\* initialAmount, returns, startDate or maturityDate, the stored sequence is
\* initializeYearlyPerformance of the merged fields and nothing else
C3_FullReprojection ==
    [][ ( /\ last'.op = "updateAsset"
          /\ last'.id \in DOMAIN assets
          /\ affectsValuation(last'.data) ) =>
            LET merged == Spread(assets[last'.id], last'.data)
                fresh == initializeYearlyPerformance(
                             merged.startDate, merged.maturityDate,
                             merged.initialAmount, merged.returns)
            IN  /\ ~fresh.threw
                /\ assets'[last'.id].yearlyPerformance = fresh.value ]_vars

ActualFields ==
    {"actualEndValue", "actualCapitalGains", "actualDividends", "actualTotalDividends"}

HasYear(yearlyPerformance, year) ==
    \E i \in DOMAIN yearlyPerformance : yearlyPerformance[i].year = year

\* C4: updateActualPerformance(id, Y, actualData) on an asset with a record for
\* year Y sets that record's four actual* fields to the supplied values and
\* leaves every other record, the record's other fields, the length and order
\* of the sequence, the asset's other fields and every other asset unchanged
C4_ReconciliationIsolation ==
    [][ ( /\ last'.op = "updateActualPerformance"
          /\ last'.id \in DOMAIN assets
          /\ HasYear(assets[last'.id].yearlyPerformance, last'.year) ) =>
            LET id == last'.id
                before == assets[id].yearlyPerformance
                after == assets'[id].yearlyPerformance
            IN  /\ DOMAIN assets' = DOMAIN assets
                /\ \A other \in DOMAIN assets \ {id} : assets'[other] = assets[other]
                /\ DOMAIN assets'[id] = DOMAIN assets[id]
                /\ \A k \in DOMAIN assets[id] \ {"yearlyPerformance"} :
                      assets'[id][k] = assets[id][k]
                /\ Len(after) = Len(before)
                /\ \A i \in DOMAIN before :
                      IF before[i].year # last'.year
                      THEN after[i] = before[i]
                      ELSE /\ after[i].actualEndValue = last'.actualData.endValue
                           /\ after[i].actualCapitalGains = last'.actualData.capitalGains
                           /\ after[i].actualDividends = last'.actualData.dividends
                           /\ after[i].actualTotalDividends =
                                 last'.actualData.totalDividends
                           /\ DOMAIN after[i] = DOMAIN before[i] \cup ActualFields
                           /\ \A k \in DOMAIN before[i] \ ActualFields :
                                 after[i][k] = before[i][k] ]_vars

\* a reconciled year of a projected sequence of several years, beside another asset
C4_Witness ==
    /\ last.op = "updateActualPerformance"
    /\ last.id \in DOMAIN assets
    /\ Cardinality(DOMAIN assets) >= 2
    /\ LET yp == assets[last.id].yearlyPerformance
       IN  /\ Len(yp) >= 2
           /\ \E i \in DOMAIN yp :
                 /\ yp[i].year = last.year
                 /\ "endValue" \in DOMAIN yp[i]
                 /\ "actualEndValue" \in DOMAIN yp[i]
                 /\ yp[i].actualEndValue = last.actualData.endValue
                 /\ yp[i].actualEndValue # yp[i].endValue

\* C5: updateActualPerformance for an unknown asset id, or for a year the asset
\* has no record of, raises nothing and leaves the asset store as it was
C5_MissingYearIsNoOp ==
    [][ ( /\ last'.op = "updateActualPerformance"
          /\ \/ last'.id \notin DOMAIN assets
             \/ ~HasYear(assets[last'.id].yearlyPerformance, last'.year) ) =>
            /\ assets' = assets
            /\ last'.error = "none" ]_vars

\* a reconciliation of a year outside an existing asset's non-empty sequence
C5_Witness ==
    /\ last.op = "updateActualPerformance"
    /\ last.id \in DOMAIN assets
    /\ assets[last.id].yearlyPerformance # <<>>
    /\ ~HasYear(assets[last.id].yearlyPerformance, last.year)

\* the payload of the scenario: 100000 from 2024-01-01, no maturity, 5% yearly,
\* no income gain
ScenarioData ==
    AssetData("a", IntNum(100000), <<2024, 1, 1>>, <<>>, ReturnsNoIncome)

\* C6: createAsset with a returns object that has no incomeGain does not fail;
\* every record has no dividends and endValue = round(evaluationAmount), and
\* the scenario's 2024 record is 100000 / 5000 / 105000 / 0
C6_NoIncomeGainMeansNoDividends ==
    ( /\ last.op = "createAsset"
      /\ "incomeGain" \notin DOMAIN last.data.returns ) =>
        /\ last.error = "none"
        /\ last.id \in DOMAIN assets
        /\ LET yp == assets[last.id].yearlyPerformance
           IN  /\ \A i \in DOMAIN yp :
                     /\ yp[i].totalDividends = 0
                     /\ yp[i].endValue = yp[i].startValue + yp[i].capitalGains
               /\ last.data = ScenarioData =>
                     \E i \in DOMAIN yp :
                        /\ yp[i].year = 2024
                        /\ yp[i].startValue = 100000
                        /\ yp[i].capitalGains = 5000
                        /\ yp[i].endValue = 105000
                        /\ yp[i].totalDividends = 0

----------------------------------------------------------------------------
(* Properties of the calculators *)

\* |x - (w + f / Scale)| <= tol / Scale
Near(x, w, f, tol) ==
    LET target == Num(w, f)
    IN  /\ NumLeq(NumSub(x, target), Num(0, tol))
        /\ NumLeq(NumSub(target, x), Num(0, tol))

\* C7: calculateCapitalGain returns evaluationAmount =
\* startValue * (1 + periodRate)^periods and capitalGain = evaluationAmount -
\* startValue, unrounded, with 365 periods of annualRate/365 for daily, 12 of
\* annualRate/12 for monthly and 1 of annualRate for yearly; 1000 at 0.12
\* monthly gives about 1126.83 and 126.83
C7_CompoundingFormula ==
    (calc.fn = "calculateCapitalGain"
        /\ calc.compoundingFrequency \in {"daily", "monthly", "yearly"}) =>
        LET periods == CASE calc.compoundingFrequency = "daily" -> 365
                         [] calc.compoundingFrequency = "monthly" -> 12
                         [] calc.compoundingFrequency = "yearly" -> 1
            periodRate == OnePlus(calc.annualRate, periods)
            evaluation == MulNum(calc.initialAmount, MathPow(periodRate, periods))
        IN  /\ calc.result.evaluationAmount = evaluation
            /\ calc.result.capitalGain = NumSub(evaluation, calc.initialAmount)
            /\ (calc.initialAmount = IntNum(1000) /\ calc.annualRate = 120
                    /\ calc.compoundingFrequency = "monthly") =>
                  /\ Near(calc.result.evaluationAmount, 1126, 830000, 10000)
                  /\ Near(calc.result.capitalGain, 126, 830000, 10000)
            /\ (calc.initialAmount = IntNum(1000) /\ calc.annualRate = 120
                    /\ calc.compoundingFrequency = "yearly") =>
                  calc.result.evaluationAmount = IntNum(1120)

\* the monthly example, with a result that is not a whole number
C7_Witness ==
    /\ calc.fn = "calculateCapitalGain"
    /\ calc.initialAmount = IntNum(1000)
    /\ calc.annualRate = 120
    /\ calc.compoundingFrequency = "monthly"
    /\ calc.result.evaluationAmount.w = 1126
    /\ calc.result.evaluationAmount.f # 0

\* C8: with a compoundingFrequency outside {yearly, monthly, daily}
\* calculateCapitalGain returns the yearly result, and with a paymentFrequency
\* outside {yearly, quarterly, monthly} calculateDividends returns the yearly
\* schedule of one payment
C8_UnknownFrequencyIsYearly ==
    /\ (calc.fn = "calculateCapitalGain"
           /\ calc.compoundingFrequency \notin {"yearly", "monthly", "daily"}) =>
          calc.result =
              calculateCapitalGain(calc.initialAmount, calc.annualRate, "yearly")
    /\ (calc.fn = "calculateDividends"
           /\ calc.paymentFrequency \notin {"yearly", "quarterly", "monthly"}) =>
          /\ Len(calc.result) = 1
          /\ calc.result =
                calculateDividends(calc.amount, calc.dividendYield, "yearly", calc.year)

\* an unrecognized payment frequency with a payment that is not zero
C8_Witness ==
    /\ calc.fn = "calculateDividends"
    /\ calc.paymentFrequency = "weekly"
    /\ Len(calc.result) = 1
    /\ calc.result[1].amount > 0

\* C9: calculateDividends returns 12 payments for monthly, 4 for quarterly and
\* 1 for yearly, in ascending order, the date of payment i (0-based) falling
\* in month index floor(12 / paymentsPerYear * i): months 0, 3, 6, 9 for
\* quarterly, the months of one year pairwise distinct
C9_PaymentSchedule ==
    (calc.fn = "calculateDividends"
        /\ calc.paymentFrequency \in {"monthly", "quarterly", "yearly"}) =>
        LET months == CASE calc.paymentFrequency = "monthly" ->
                              <<0, 1, 2, 3, 4, 5, 6, 7, 8, 9, 10, 11>>
                        [] calc.paymentFrequency = "quarterly" -> <<0, 3, 6, 9>>
                        [] calc.paymentFrequency = "yearly" -> <<0>>
        IN  /\ Len(calc.result) = Len(months)
            /\ \A k \in DOMAIN months : calc.result[k].date[2] = months[k] + 1
            /\ \A j, k \in DOMAIN calc.result :
                  j < k => calc.result[j].date[2] < calc.result[k].date[2]

\* C10: every payment's date is the calendar date <<year, month, 1>> of its
\* payment month, whatever the host's offset from UTC
C10_DatesAreFirstOfMonth ==
    calc.fn = "calculateDividends" =>
        \A k \in DOMAIN calc.result :
            /\ calc.result[k].date[1] = calc.year
            /\ calc.result[k].date[2] =
                  paymentMonth(Len(calc.result), k - 1) + 1
            /\ calc.result[k].date[3] = 1

\* whether r = Math.round(amount * dividendYield / perYear), for an amount of
\* whole units or of whole units and a half
IsRoundedShare(r, amount, dividendYield, perYear) ==
    LET twice == 2 * amount.w + (IF amount.f = 0 THEN 0 ELSE 1)
        d == RateDen * perYear
    IN  /\ amount.f \in {0, Scale \div 2}
        /\ 4 * d * r <= 2 * twice * dividendYield + 2 * d
        /\ 2 * twice * dividendYield + 2 * d < 4 * d * (r + 1)

\* the record of a year that calculateYearPerformance returned
YearRecorded == calc.fn = "calculateYearPerformance" /\ ~calc.result.threw

\* the number of payments the paymentFrequency of the call stands for
CalledPayments ==
    CASE calc.returns.incomeGain.paymentFrequency = "monthly" -> 12
      [] calc.returns.incomeGain.paymentFrequency = "quarterly" -> 4
      [] OTHER -> 1

\* C11 (as stated): every payment of a yearly record equals
\* round(startValue * dividendYield / paymentsPerYear) for the record's
\* startValue, all payments of the year are equal and totalDividends is their sum
C11_DividendOfRecordedStart ==
    YearRecorded =>
        LET record == calc.result.value
        IN  /\ Len(record.dividends) = CalledPayments
            /\ \A k \in DOMAIN record.dividends :
                  IsRoundedShare(record.dividends[k].amount, IntNum(record.startValue),
                                 calc.returns.incomeGain.dividendYield, CalledPayments)
            /\ record.totalDividends = sumAmounts(record.dividends)

\* C11 (amended): every payment of a yearly record equals
\* round(b * dividendYield / paymentsPerYear) for the opening amount b handed to
\* calculateYearPerformance (the record's startValue when b is whole), each
\* rounded on its own, all equal, and totalDividends is their sum,
\* paymentsPerYear times the payment
C11_DividendOfOpeningAmount ==
    YearRecorded =>
        LET record == calc.result.value
        IN  /\ Len(record.dividends) = CalledPayments
            /\ \A k \in DOMAIN record.dividends :
                  /\ IsRoundedShare(record.dividends[k].amount, calc.startValue,
                                    calc.returns.incomeGain.dividendYield,
                                    CalledPayments)
                  /\ record.dividends[k].amount = record.dividends[1].amount
            /\ record.totalDividends = sumAmounts(record.dividends)
            /\ record.totalDividends = CalledPayments * record.dividends[1].amount
            /\ (calc.startValue.f = 0 => record.startValue = calc.startValue.w)

\* four payments of 8 on 1000 at 3%: their sum 32 is not round(1000 * 0.03)
C11_Witness ==
    /\ YearRecorded
    /\ calc.startValue = IntNum(1000)
    /\ Len(calc.result.value.dividends) = 4
    /\ calc.result.value.dividends[1].amount = 8
    /\ calc.result.value.totalDividends = 32

\* C12: a yearly record's endValue is round(evaluationAmount) + totalDividends
\* when reinvestDividends is true and round(evaluationAmount) when it is false,
\* the evaluation amount being that of the opening amount alone
C12_ReinvestmentAdditivity ==
    YearRecorded =>
        LET record == calc.result.value
            evaluationAmount ==
                calculateCapitalGain(calc.startValue,
                                     calc.returns.capitalGain.annualRate,
                                     calc.returns.capitalGain.compoundingFrequency
                                    ).evaluationAmount
        IN  IF calc.returns.incomeGain.reinvestDividends
            THEN record.endValue = MathRound(evaluationAmount) + record.totalDividends
            ELSE record.endValue = MathRound(evaluationAmount)

\* a year with dividends that are not reinvested
C12_Witness ==
    /\ YearRecorded
    /\ ~calc.returns.incomeGain.reinvestDividends
    /\ calc.result.value.totalDividends > 0
    /\ calc.result.value.endValue # calc.result.value.startValue

----------------------------------------------------------------------------
(* Properties of the aggregate read *)

\* the value the last record of a sequence stands for when a reconciled
\* actualEndValue, whatever its value, is preferred to the projected endValue
PreferredValue(yearlyPerformance) ==
    LET latest == yearlyPerformance[Len(yearlyPerformance)]
    IN  IF "actualEndValue" \in DOMAIN latest
        THEN latest.actualEndValue
        ELSE latest.endValue

RECURSIVE PreferredTotal(_)
PreferredTotal(ids) ==
    IF ids = {} THEN 0
    ELSE LET id == CHOOSE i \in ids : TRUE
         IN  PreferredValue(assets[id].yearlyPerformance) + PreferredTotal(ids \ {id})

\* C13: when every asset has a non-empty projected sequence, totalAssetValue
\* is the sum over the assets of the last record's actualEndValue where
\* reconciliation has set one (0 included) and of its endValue otherwise
C13_ActualTakesPrecedence ==
    (\A id \in DOMAIN assets :
        /\ assets[id].yearlyPerformance # <<>>
        /\ IsProjected(assets[id].yearlyPerformance)) =>
        totalAssetValue = [kind |-> "number", value |-> PreferredTotal(DOMAIN assets)]

----------------------------------------------------------------------------
(* Properties of the Monte Carlo simulation *)

\* a simulation of an existing asset has returned
Simulated == calc.fn = "runMonteCarloSimulation" /\ calc.result.kind = "result"

\* the last values of the paths of the returned result
FinalValues ==
    {calc.result.paths[i][Len(calc.result.paths[i])] : i \in DOMAIN calc.result.paths}

\* C14: a simulation of an existing asset with iterations >= 1 returns
\* worstCase <= expected <= bestCase, each of them the final value of one of
\* the generated paths, whatever the draws
C14_PercentileOrdering ==
    (Simulated /\ calc.iterations >= 1) =>
        /\ \A p \in {calc.result.worstCase, calc.result.expected, calc.result.bestCase} :
              p.kind = "number" /\ p.value \in FinalValues
        /\ NumLeq(calc.result.worstCase.value, calc.result.expected.value)
        /\ NumLeq(calc.result.expected.value, calc.result.bestCase.value)

\* three paths generated in descending order of their final values, with
\* three different percentiles
C14_Witness ==
    /\ Simulated
    /\ calc.iterations = 3
    /\ NumLess(calc.result.paths[2][2], calc.result.paths[1][2])
    /\ NumLess(calc.result.worstCase.value, calc.result.bestCase.value)

\* C15: for a sorted list of n >= 1 values and p in {0.05, 0.50, 0.95} the
\* index getPercentile uses is floor(n * p) clamped to at most n - 1, an index
\* of the list, and the value returned is the defined value at that index
C15_PercentileInRange ==
    (calc.fn = "getPercentile" /\ Len(calc.sortedArray) >= 1) =>
        LET n == Len(calc.sortedArray)
            floor == CHOOSE k \in 0..n :
                        /\ k * 100 <= n * calc.percentile
                        /\ n * calc.percentile < (k + 1) * 100
        IN  /\ calc.index = (IF floor > n - 1 THEN n - 1 ELSE floor)
            /\ calc.index \in 0..(n - 1)
            /\ calc.result = [kind |-> "number", value |-> calc.sortedArray[calc.index + 1]]

\* the 95th percentile of a single value
C15_Witness ==
    /\ calc.fn = "getPercentile"
    /\ Len(calc.sortedArray) = 1
    /\ calc.percentile = 95
    /\ calc.result.kind = "number"

\* C16: a simulation of an existing asset returns exactly `iterations` paths
\* of exactly years + 1 values each, the first the asset's initialAmount and
\* every next one the previous one times that step's positive growth factor,
\* and the percentiles are those of the paths' last values
C16_PathShape ==
    Simulated =>
        LET paths == calc.result.paths
        IN  /\ Len(paths) = calc.iterations
            /\ \A i \in DOMAIN paths :
                  /\ Len(paths[i]) = calc.years + 1
                  /\ paths[i][1] = assets[calc.assetId].initialAmount
                  /\ \A k \in 1..(Len(paths[i]) - 1) :
                        /\ calc.growth[i][k] > 0
                        /\ paths[i][k + 1] = MulNum(paths[i][k], calc.growth[i][k])
            /\ \A p \in {calc.result.worstCase, calc.result.expected, calc.result.bestCase} :
                  p.kind = "number" => p.value \in FinalValues

\* C17: runMonteCarloSimulation on an existing asset with years <= 0 or
\* iterations <= 0 fails with an InvalidParameterError instead of returning a
\* SimulationResult
C17_NonPositiveParametersFail ==
    ( /\ calc.fn = "runMonteCarloSimulation"
      /\ calc.assetId \in DOMAIN assets
      /\ (calc.years <= 0 \/ calc.iterations <= 0) ) =>
        calc.result.kind = "InvalidParameterError"

----------------------------------------------------------------------------
(* Properties of the date range *)

\* C18: createAsset and updateAsset with a maturityDate that is not after
\* startDate fail with an InvalidDateRangeError: no stored asset has such
\* dates, and no stored sequence is empty
C18_InvalidDateRangeFailsFast ==
    /\ ( /\ last.op = "createAsset"
         /\ last.data.maturityDate # <<>>
         /\ ~DateAfter(last.data.maturityDate, last.data.startDate) ) =>
            last.error = "InvalidDateRangeError"
    /\ \A id \in DOMAIN assets :
          /\ assets[id].maturityDate # <<>> =>
                DateAfter(assets[id].maturityDate, assets[id].startDate)
          /\ assets[id].yearlyPerformance # <<>>

\* C19: validateAsset throws a ValidationError for every asset whose
\* maturityDate is present and not strictly after startDate, the same day
\* included, as AssetModal.validateForm rejects it
C19_ValidatorRejectsDateRange ==
    ( /\ calc.fn \in {"validateAsset", "validateForm"}
      /\ calc.data.maturityDate # <<>>
      /\ ~DateAfter(calc.data.maturityDate, calc.data.startDate) ) =>
        calc.result # "ok"

----------------------------------------------------------------------------
(* Properties of rehydration *)

\* C20: hydrate(data) leaves in the store exactly the supplied assets, each
\* with its yearlyPerformance sequence as supplied (projected fields and
\* actual* overlays included), and hydrate(serialize()) leaves the store as
\* it was
C20_HydrateStoresAsSupplied ==
    [][ last'.op = "hydrate" =>
          /\ DOMAIN assets' = {last'.data[k].id : k \in DOMAIN last'.data}
          /\ \A k \in DOMAIN last'.data :
                assets'[last'.data[k].id] = last'.data[k]
          /\ (last'.data = serialize => assets' = assets) ]_vars

\* a rehydrated asset with a reconciled year whose sequence is not the one a
\* projection of its fields gives
C20_Witness ==
    /\ last.op = "hydrate"
    /\ \E id \in DOMAIN assets :
          LET yp == assets[id].yearlyPerformance
              fresh == initializeYearlyPerformance(
                           assets[id].startDate, assets[id].maturityDate,
                           assets[id].initialAmount, assets[id].returns)
          IN  /\ yp # <<>>
              /\ "actualEndValue" \in DOMAIN yp[Len(yp)]
              /\ ~fresh.threw
              /\ Len(fresh.value) = Len(yp)
              /\ fresh.value[1].endValue # yp[1].endValue

----------------------------------------------------------------------------
(* Properties of the simulation's effect on the store *)

\* C21: runMonteCarloSimulation leaves the assets map, every asset's fields
\* and every yearlyPerformance record as they were, its result is that of the
\* asset's initialAmount and the draws alone, and for an unknown asset id it
\* returns null
C21_SimulationReadsOnly ==
    [][ (calc'.fn = "runMonteCarloSimulation" /\ calc' # calc) =>
          /\ assets' = assets
          /\ <<nextId', last'>> = <<nextId, last>>
          /\ IF calc'.assetId \in DOMAIN assets
             THEN /\ calc'.result.kind = "result"
                  /\ \A i \in DOMAIN calc'.result.paths :
                        calc'.result.paths[i] =
                            simulatePath(assets[calc'.assetId].initialAmount,
                                         calc'.years, calc'.growth[i])
             ELSE calc'.result.kind = "null" ]_vars

\* a simulation of several years of an asset with a projected sequence, whose
\* paths leave the asset's initialAmount
C21_Witness ==
    /\ Simulated
    /\ calc.iterations >= 1
    /\ calc.years >= 2
    /\ assets[calc.assetId].yearlyPerformance # <<>>
    /\ \E v \in FinalValues : v # assets[calc.assetId].initialAmount

\* a record carrying a reconciled actual* overlay
HasOverlay(yearlyPerformance) ==
    \E i \in DOMAIN yearlyPerformance :
        DOMAIN yearlyPerformance[i] \cap ActualFields # {}

\* C22: a recomputing updateAsset and an updateActualPerformance on one asset
\* take effect one whole call after the other: a reconciliation patches the
\* sequence stored at that moment and keeps its length and years, and a
\* recomputing updateAsset that follows a reconciliation leaves the whole new
\* projection with no overlay
C22_RecomputeAndPatchSerialized ==
    [][ /\ ( /\ last'.op = "updateActualPerformance"
             /\ last'.id \in DOMAIN assets
             /\ HasYear(assets[last'.id].yearlyPerformance, last'.year) ) =>
               LET before == assets[last'.id].yearlyPerformance
                   after == assets'[last'.id].yearlyPerformance
               IN  /\ Len(after) = Len(before)
                   /\ \A i \in DOMAIN before :
                         IF before[i].year = last'.year
                         THEN after[i] = Spread(before[i], actualOverlay(last'.actualData))
                         ELSE after[i] = before[i]
        /\ ( /\ last'.op = "updateAsset"
             /\ last'.id \in DOMAIN assets
             /\ affectsValuation(last'.data)
             /\ HasOverlay(assets[last'.id].yearlyPerformance) ) =>
               LET after == assets'[last'.id].yearlyPerformance
               IN  /\ IsProjected(after)
                   /\ ~HasOverlay(after) ]_vars

----------------------------------------------------------------------------
(* Properties of the stored records *)

\* an asset with a whole initialAmount >= 0, annualRate >= 0 and
\* dividendYield >= 0 that holds a projected sequence
GrowingAsset(asset) ==
    /\ asset.initialAmount.f = 0
    /\ asset.initialAmount.w >= 0
    /\ asset.returns.capitalGain.annualRate >= 0
    /\ "incomeGain" \in DOMAIN asset.returns
    /\ asset.returns.incomeGain.dividendYield >= 0
    /\ IsProjected(asset.yearlyPerformance)

\* C23: for an asset with integer initialAmount >= 0, annualRate >= 0 and
\* dividendYield >= 0, every yearly record has endValue >= startValue and
\* capitalGains >= 0, and startValue and endValue never decrease along the
\* sequence
C23_MonotonicCompounding ==
    \A id \in DOMAIN assets :
        GrowingAsset(assets[id]) =>
            LET yp == assets[id].yearlyPerformance
            IN  /\ \A i \in DOMAIN yp :
                      /\ yp[i].endValue >= yp[i].startValue
                      /\ yp[i].capitalGains >= 0
                /\ \A n \in 1..(Len(yp) - 1) :
                      /\ yp[n + 1].startValue >= yp[n].startValue
                      /\ yp[n + 1].endValue >= yp[n].endValue

\* two assets of that kind, one reinvesting its dividends and one not, each
\* with several records and a value that has grown
C23_Witness ==
    \E id1, id2 \in DOMAIN assets :
        /\ GrowingAsset(assets[id1]) /\ GrowingAsset(assets[id2])
        /\ assets[id1].returns.incomeGain.reinvestDividends
        /\ ~assets[id2].returns.incomeGain.reinvestDividends
        /\ \A id \in {id1, id2} :
              LET yp == assets[id].yearlyPerformance
              IN  /\ Len(yp) >= 3
                  /\ yp[Len(yp)].endValue > yp[1].startValue
                  /\ yp[1].capitalGains > 0

\* an asset with a whole initialAmount that holds a projected sequence
WholeAsset(asset) ==
    /\ asset.initialAmount.f = 0
    /\ "incomeGain" \in DOMAIN asset.returns
    /\ IsProjected(asset.yearlyPerformance)

\* C24: for an asset with integer initialAmount every yearly record has
\* integer startValue, endValue, capitalGains and totalDividends, with
\* endValue = startValue + capitalGains when reinvestDividends is false and
\* endValue = startValue + capitalGains + totalDividends when it is true
C24_AccountingIdentity ==
    \A id \in DOMAIN assets :
        WholeAsset(assets[id]) =>
            LET yp == assets[id].yearlyPerformance
                reinvestDividends == assets[id].returns.incomeGain.reinvestDividends
            IN  \A i \in DOMAIN yp :
                  /\ {yp[i].startValue, yp[i].endValue, yp[i].capitalGains,
                      yp[i].totalDividends} \subseteq Int
                  /\ yp[i].endValue =
                        yp[i].startValue + yp[i].capitalGains
                        + (IF reinvestDividends THEN yp[i].totalDividends ELSE 0)

\* an asset reinvesting a dividend and an asset paying one out, each with a
\* gain that is not a whole number before rounding
C24_Witness ==
    \E id1, id2 \in DOMAIN assets :
        /\ WholeAsset(assets[id1]) /\ WholeAsset(assets[id2])
        /\ assets[id1].returns.incomeGain.reinvestDividends
        /\ ~assets[id2].returns.incomeGain.reinvestDividends
        /\ \A id \in {id1, id2} :
              LET yp == assets[id].yearlyPerformance
              IN  /\ yp # <<>>
                  /\ yp[1].totalDividends > 0
                  /\ calculateCapitalGain(
                         IntNum(yp[1].startValue),
                         assets[id].returns.capitalGain.annualRate,
                         assets[id].returns.capitalGain.compoundingFrequency
                     ).capitalGain.f # 0

\* C25: every stored asset has a non-empty yearlyPerformance sequence, so the
\* totalAssetValue getter always finds a last record to read
C25_EveryAssetHasRecords ==
    /\ \A id \in DOMAIN assets : assets[id].yearlyPerformance # <<>>
    /\ totalAssetValue.kind # "TypeError"

\* C26: updateAsset(id, data) with data defining none of initialAmount,
\* returns, startDate, maturityDate and yearlyPerformance merges data into the
\* asset and leaves its yearlyPerformance, overlays included, and every other
\* asset as they were; updateAsset on an unknown id creates no asset and
\* changes nothing
C26_PlainUpdateKeepsSequence ==
    [][ /\ ( /\ last'.op = "updateAsset"
             /\ last'.id \in DOMAIN assets
             /\ DOMAIN last'.data \cap
                   {"initialAmount", "returns", "startDate", "maturityDate",
                    "yearlyPerformance"} = {} ) =>
               /\ DOMAIN assets' = DOMAIN assets
               /\ assets'[last'.id] = Spread(assets[last'.id], last'.data)
               /\ assets'[last'.id].yearlyPerformance =
                     assets[last'.id].yearlyPerformance
               /\ \A id \in DOMAIN assets \ {last'.id} : assets'[id] = assets[id]
        /\ ( /\ last'.op = "updateAsset"
             /\ last'.id \notin DOMAIN assets ) =>
               /\ assets' = assets
               /\ nextId' = nextId ]_vars

\* a renaming of an asset whose sequence carries a reconciled overlay
C26_Witness ==
    /\ last.op = "updateAsset"
    /\ last.id \in DOMAIN assets
    /\ DOMAIN last.data = {"name"}
    /\ assets[last.id].name = last.data.name
    /\ IsProjected(assets[last.id].yearlyPerformance)
    /\ HasOverlay(assets[last.id].yearlyPerformance)

----------------------------------------------------------------------------
(* Properties of the life plans *)

\* C27: every entry of lifePlans is keyed by its own record's id, which is
\* defined, so that hydrate of the saved serialize() restores the same plans
\* under the same keys
C27_KeyedByOwnId ==
    /\ \A key \in DOMAIN lifePlans :
          /\ "id" \in DOMAIN lifePlans[key]
          /\ lifePlans[key].id = key
          /\ key # Undefined
    /\ DOMAIN setAllPlans(<<>>, savedLifePlans) = DOMAIN lifePlans

\* C28: activeLifePlanId is null or the key of a plan in lifePlans
C28_ActivePlanExists ==
    activeLifePlanId = Null \/ activeLifePlanId \in DOMAIN lifePlans

\* a year with nothing in it
IsEmptyYear(yearData) ==
    /\ yearData.events = <<>>
    /\ yearData.incomes = <<>>
    /\ yearData.expenses = <<>>
    /\ yearData.assets = <<>>

\* C29: updateLifePlan(id, data) on an existing plan replaces yearlyFinances by
\* data.lifespan empty records for the years from data.startYear on, by the
\* empty sequence when data omits startYear or lifespan; on an unknown id it
\* changes nothing
C29_UpdateRegeneratesYears ==
    [][ /\ ( /\ last'.op = "updateLifePlan"
             /\ last'.id \in DOMAIN lifePlans ) =>
               LET after == lifePlans'[last'.id].yearlyFinances
                   data == last'.data
               IN  /\ \A n \in DOMAIN after : IsEmptyYear(after[n])
                   /\ IF {"startYear", "lifespan"} \subseteq DOMAIN data
                      THEN /\ Len(after) = data.lifespan
                           /\ \A n \in DOMAIN after :
                                 after[n].year = JsNumber(data.startYear + n - 1)
                      ELSE after = <<>>
        /\ ( /\ last'.op = "updateLifePlan"
             /\ last'.id \notin DOMAIN lifePlans ) =>
               /\ lifePlans' = lifePlans
               /\ activeLifePlanId' = activeLifePlanId ]_vars

====
